---- MODULE Spec2Model ----
(***************************************************************************)
(* Packet read cache and packet verification of libE57Format               *)
(* (src/src/Packet.h, src/src/Packet.cpp). Fields are read as the          *)
(* little-endian build reads them; DataPacket_swab is the one function of  *)
(* the E57_BIGENDIAN build that is modelled.                               *)
(*                                                                         *)
(* A byte array is kept sparsely: len is the number of bytes written so    *)
(* far and nz maps the positions that hold a non-zero byte to that byte.   *)
(* Positions below len that are not in nz hold 0.                          *)
(***************************************************************************)
EXTENDS Integers, Naturals, Sequences, FiniteSets, TLC

\* ------------------------------------------------------------------------
\* Bounds of the model

\* largest packetCount handed to the constructor
MaxSlots == 2

\* largest value useCount_ reaches (number of successful locks explored)
MaxUse == 4

\* largest number of calls of unlock made outside a guard
MaxDirect == 1

\* largest bytestreamCount of the data packets handed to verify and getBytestream
MaxStreams == 2

\* width in bits of the useCount_ and lastUsed_ counters in the runs that cross
\* the wrap
UseBits == 2

\* ------------------------------------------------------------------------
\* Program constants

E57_INDEX_PACKET == 0
E57_DATA_PACKET == 1
E57_EMPTY_PACKET == 2
E57_DATA_PACKET_MAX == 65536
MAX_ENTRIES == 2048

\* width in bits of unsigned (useCount_, lastUsed_)
UnsignedBits == 32

\* sizeof(DataPacketHeader), sizeof(EmptyPacketHeader), sizeof(IndexPacket)
SizeofDataPacketHeader == 6
SizeofEmptyPacketHeader == 4
SizeofIndexPacketHeader == 16
SizeofIndexPacket == SizeofIndexPacketHeader + 16 * MAX_ENTRIES

\* ------------------------------------------------------------------------
\* Raw memory

NoBytes == [len |-> 0, nz |-> <<>>]

ByteAt(b, i) == IF i \in DOMAIN b.nz THEN b.nz[i] ELSE 0

\* uint16_t / uint64_t field at byte position pos, host order = little-endian
U16(b, pos) == ByteAt(b, pos) + 256 * ByteAt(b, pos + 1)

RECURSIVE UIntLE(_, _, _)
UIntLE(b, pos, n) ==
    IF n = 0 THEN 0 ELSE ByteAt(b, pos) + 256 * UIntLE(b, pos + 1, n - 1)

U64(b, pos) == UIntLE(b, pos, 8)

\* the first n bytes of src copied over dst (cFile_->read(buffer_, n))
Overwrite(dst, src, n) ==
    LET keep == {i \in DOMAIN dst.nz : i >= n}
        new  == {i \in DOMAIN src.nz : i < n}
    IN  [len |-> IF dst.len > n THEN dst.len ELSE n,
         nz  |-> [i \in keep \cup new |-> IF i \in new THEN src.nz[i] ELSE dst.nz[i]]]

\* the first n bytes of b
Prefix(b, n) == Overwrite(NoBytes, b, n)

\* ------------------------------------------------------------------------
\* The file behind the cache: packets laid out back to back

\* bytes of a little-endian 16-bit field at pos (zero bytes are not stored)
Put8(pos, v) == IF v = 0 THEN <<>> ELSE (pos :> v)
Put16(pos, v) == Put8(pos, v % 256) @@ Put8(pos + 1, v \div 256)

Header(type, flags, len) == Put8(0, type) @@ Put8(1, flags) @@ Put16(2, len - 1)

\* data packet, 1 bytestream of 4 bytes, no padding: needed = 6+2+4 = 12
PktDataA == [len |-> 12, nz |-> Header(1, 0, 12) @@ Put16(4, 1) @@ Put16(6, 4)
                                 @@ (8 :> 17) @@ (9 :> 18) @@ (10 :> 19) @@ (11 :> 20)]

\* data packet, 1 bytestream of 1 byte, 3 zero bytes of padding: needed = 9
PktDataB == [len |-> 12, nz |-> Header(1, 0, 12) @@ Put16(4, 1) @@ Put16(6, 1)
                                 @@ (8 :> 33)]

\* empty packet of 8 bytes
PktEmpty == [len |-> 8, nz |-> Header(2, 0, 8)]

\* data packet whose padding byte 11 is not zero
PktBadPad == [len |-> 12, nz |-> Header(1, 0, 12) @@ Put16(4, 1) @@ Put16(6, 1)
                                  @@ (8 :> 49) @@ (11 :> 50)]

\* packet with a type tag that is none of 0, 1, 2
PktBadType == [len |-> 4, nz |-> Header(3, 0, 4)]

\* index packet of sizeof(IndexPacket) bytes, level 0, entries (0,1024),(5,2048),(9,4096)
PktIndex == [len |-> SizeofIndexPacket,
             nz  |-> Header(0, 0, SizeofIndexPacket) @@ Put16(4, 3)
                     @@ Put16(24, 1024)
                     @@ Put8(32, 5) @@ Put16(40, 2048)
                     @@ Put8(48, 9) @@ Put16(56, 4096)]

OffDataA == 48
OffDataB == 60
OffEmpty == 72
OffBadPad == 80
OffBadType == 92
OffIndex == 96
OffEnd == 96 + 32784

File == (OffDataA :> PktDataA) @@ (OffDataB :> PktDataB) @@ (OffEmpty :> PktEmpty)
        @@ (OffBadPad :> PktBadPad) @@ (OffBadType :> PktBadType)
        @@ (OffIndex :> PktIndex)

\* the offsets a caller hands to lock
Offsets == {0, OffEnd} \cup DOMAIN File

\* ------------------------------------------------------------------------
\* Error codes (what a call reports to its caller)

E57_SUCCESS == "E57_SUCCESS"
E57_ERROR_INTERNAL == "E57_ERROR_INTERNAL"
E57_ERROR_BAD_CV_PACKET == "E57_ERROR_BAD_CV_PACKET"
E57_ERROR_READ_FAILED == "E57_ERROR_READ_FAILED"

\* ------------------------------------------------------------------------
\* Packet verification; each operator yields the error thrown or E57_SUCCESS

EmptyPacketHeader_verify(b, bufferLength) ==
    LET packetLength == U16(b, 2) + 1
    IN  IF ByteAt(b, 0) # E57_EMPTY_PACKET THEN E57_ERROR_BAD_CV_PACKET
        ELSE IF packetLength < SizeofEmptyPacketHeader THEN E57_ERROR_BAD_CV_PACKET
        ELSE IF packetLength % 4 # 0 THEN E57_ERROR_BAD_CV_PACKET
        ELSE IF bufferLength > 0 /\ packetLength > bufferLength THEN E57_ERROR_BAD_CV_PACKET
        ELSE E57_SUCCESS

\* DataPacketHeader::verify without the multiple-of-4 check
DataPacketHeader_verify_NoMod4(b, bufferLength) ==
    LET packetLength == U16(b, 2) + 1
        bytestreamCount == U16(b, 4)
    IN  IF ByteAt(b, 0) # E57_DATA_PACKET THEN E57_ERROR_BAD_CV_PACKET
        ELSE IF packetLength < SizeofDataPacketHeader THEN E57_ERROR_BAD_CV_PACKET
        ELSE IF bufferLength > 0 /\ packetLength > bufferLength THEN E57_ERROR_BAD_CV_PACKET
        ELSE IF bytestreamCount = 0 THEN E57_ERROR_BAD_CV_PACKET
        ELSE IF SizeofDataPacketHeader + 2 * bytestreamCount > packetLength
             THEN E57_ERROR_BAD_CV_PACKET
        ELSE E57_SUCCESS

DataPacketHeader_verify(b, bufferLength) ==
    LET packetLength == U16(b, 2) + 1
        bytestreamCount == U16(b, 4)
    IN  IF ByteAt(b, 0) # E57_DATA_PACKET THEN E57_ERROR_BAD_CV_PACKET
        ELSE IF packetLength < SizeofDataPacketHeader THEN E57_ERROR_BAD_CV_PACKET
        ELSE IF packetLength % 4 # 0 THEN E57_ERROR_BAD_CV_PACKET
        ELSE IF bufferLength > 0 /\ packetLength > bufferLength THEN E57_ERROR_BAD_CV_PACKET
        ELSE IF bytestreamCount = 0 THEN E57_ERROR_BAD_CV_PACKET
        ELSE IF SizeofDataPacketHeader + 2 * bytestreamCount > packetLength
             THEN E57_ERROR_BAD_CV_PACKET
        ELSE E57_SUCCESS

\* bsbLength[i]: i-th entry of the length table at the start of payload
BsbLength(b, i) == U16(b, SizeofDataPacketHeader + 2 * i)

\* sum of bsbLength[0 .. n-1] as the loops accumulate it; at most 65535 terms
\* below 65536 each, so the 32-bit unsigned accumulator never wraps
RECURSIVE SumBsbLength(_, _)
SumBsbLength(b, n) ==
    IF n = 0 THEN 0 ELSE SumBsbLength(b, n - 1) + BsbLength(b, n - 1)

\* DataPacket::verify without the needed > packetLength test
DataPacket_verify_NoLowerBound(b, bufferLength) ==
    LET bytestreamCount == U16(b, 4)
        totalStreamByteCount == SumBsbLength(b, bytestreamCount)
        packetLength == U16(b, 2) + 1
        needed == SizeofDataPacketHeader + 2 * bytestreamCount + totalStreamByteCount
    IN  IF DataPacketHeader_verify(b, bufferLength) # E57_SUCCESS
        THEN DataPacketHeader_verify(b, bufferLength)
        ELSE IF needed + 3 < packetLength
        THEN E57_ERROR_BAD_CV_PACKET
        ELSE IF \E i \in needed .. (packetLength - 1) : ByteAt(b, i) # 0
        THEN E57_ERROR_BAD_CV_PACKET
        ELSE E57_SUCCESS

\* DataPacket::verify allowing one more byte of slack
DataPacket_verify_Slack4(b, bufferLength) ==
    LET bytestreamCount == U16(b, 4)
        totalStreamByteCount == SumBsbLength(b, bytestreamCount)
        packetLength == U16(b, 2) + 1
        needed == SizeofDataPacketHeader + 2 * bytestreamCount + totalStreamByteCount
    IN  IF DataPacketHeader_verify(b, bufferLength) # E57_SUCCESS
        THEN DataPacketHeader_verify(b, bufferLength)
        ELSE IF needed > packetLength \/ needed + 4 < packetLength
        THEN E57_ERROR_BAD_CV_PACKET
        ELSE IF \E i \in needed .. (packetLength - 1) : ByteAt(b, i) # 0
        THEN E57_ERROR_BAD_CV_PACKET
        ELSE E57_SUCCESS

\* DataPacket::verify without the loop over the padding bytes
DataPacket_verify_NoPadCheck(b, bufferLength) ==
    LET bytestreamCount == U16(b, 4)
        totalStreamByteCount == SumBsbLength(b, bytestreamCount)
        packetLength == U16(b, 2) + 1
        needed == SizeofDataPacketHeader + 2 * bytestreamCount + totalStreamByteCount
    IN  IF DataPacketHeader_verify(b, bufferLength) # E57_SUCCESS
        THEN DataPacketHeader_verify(b, bufferLength)
        ELSE IF needed > packetLength \/ needed + 3 < packetLength
        THEN E57_ERROR_BAD_CV_PACKET
        ELSE E57_SUCCESS

DataPacket_verify(b, bufferLength) ==
    LET bytestreamCount == U16(b, 4)
        totalStreamByteCount == SumBsbLength(b, bytestreamCount)
        packetLength == U16(b, 2) + 1
        needed == SizeofDataPacketHeader + 2 * bytestreamCount + totalStreamByteCount
    IN  IF DataPacketHeader_verify(b, bufferLength) # E57_SUCCESS
        THEN DataPacketHeader_verify(b, bufferLength)
        ELSE IF needed > packetLength \/ needed + 3 < packetLength
        THEN E57_ERROR_BAD_CV_PACKET
        ELSE IF \E i \in needed .. (packetLength - 1) : ByteAt(b, i) # 0
        THEN E57_ERROR_BAD_CV_PACKET
        ELSE E57_SUCCESS

\* entries[i] of an index packet
ChunkRecordNumber(b, i) == U64(b, 16 + 16 * i)
ChunkPhysicalOffset(b, i) == U64(b, 24 + 16 * i)

\* the checks of IndexPacket::verify compiled in under E57_MAX_DEBUG only.
\* The padding loop runs over neededLength .. packetLength-1; a byte there is
\* non-zero exactly when its position is in nz.
IndexPacket_verifyMaxDebug(b, neededLength, packetLength, totalRecordCount, fileSize) ==
    LET entryCount == U16(b, 4)
    IN  IF \E i \in DOMAIN b.nz : i >= neededLength /\ i < packetLength
        THEN E57_ERROR_BAD_CV_PACKET
        ELSE IF \E i \in 0 .. (entryCount - 1) :
                   \/ totalRecordCount > 0 /\ ChunkRecordNumber(b, i) >= totalRecordCount
                   \/ i > 0 /\ ChunkRecordNumber(b, i - 1) >= ChunkRecordNumber(b, i)
                   \/ fileSize > 0 /\ ChunkPhysicalOffset(b, i) >= fileSize
                   \/ i > 0 /\ ChunkPhysicalOffset(b, i - 1) >= ChunkPhysicalOffset(b, i)
        THEN E57_ERROR_BAD_CV_PACKET
        ELSE E57_SUCCESS

\* IndexPacket::verify comparing the length with the size of the header only
IndexPacket_verify_HeaderSize(b, bufferLength, totalRecordCount, fileSize, maxDebug) ==
    LET packetLength == U16(b, 2) + 1
        entryCount == U16(b, 4)
        indexLevel == ByteAt(b, 6)
        neededLength == 16 + 8 * entryCount
    IN  IF ByteAt(b, 0) # E57_INDEX_PACKET THEN E57_ERROR_BAD_CV_PACKET
        ELSE IF packetLength < SizeofIndexPacketHeader THEN E57_ERROR_BAD_CV_PACKET
        ELSE IF packetLength % 4 # 0 THEN E57_ERROR_BAD_CV_PACKET
        ELSE IF entryCount = 0 THEN E57_ERROR_BAD_CV_PACKET
        ELSE IF entryCount > MAX_ENTRIES THEN E57_ERROR_BAD_CV_PACKET
        ELSE IF indexLevel > 5 THEN E57_ERROR_BAD_CV_PACKET
        ELSE IF indexLevel > 0 /\ entryCount < 2 THEN E57_ERROR_BAD_CV_PACKET
        ELSE IF \E i \in 0 .. 8 : ByteAt(b, 7 + i) # 0 THEN E57_ERROR_BAD_CV_PACKET
        ELSE IF bufferLength > 0 /\ packetLength > bufferLength THEN E57_ERROR_BAD_CV_PACKET
        ELSE IF packetLength < neededLength THEN E57_ERROR_BAD_CV_PACKET
        ELSE IF maxDebug
        THEN IndexPacket_verifyMaxDebug(b, neededLength, packetLength, totalRecordCount, fileSize)
        ELSE E57_SUCCESS

\* IndexPacket::verify without the indexLevel > 5 check
IndexPacket_verify_NoLevelCheck(b, bufferLength, totalRecordCount, fileSize, maxDebug) ==
    LET packetLength == U16(b, 2) + 1
        entryCount == U16(b, 4)
        indexLevel == ByteAt(b, 6)
        neededLength == 16 + 8 * entryCount
    IN  IF ByteAt(b, 0) # E57_INDEX_PACKET THEN E57_ERROR_BAD_CV_PACKET
        ELSE IF packetLength < SizeofIndexPacket THEN E57_ERROR_BAD_CV_PACKET
        ELSE IF packetLength % 4 # 0 THEN E57_ERROR_BAD_CV_PACKET
        ELSE IF entryCount = 0 THEN E57_ERROR_BAD_CV_PACKET
        ELSE IF entryCount > MAX_ENTRIES THEN E57_ERROR_BAD_CV_PACKET
        ELSE IF indexLevel > 0 /\ entryCount < 2 THEN E57_ERROR_BAD_CV_PACKET
        ELSE IF \E i \in 0 .. 8 : ByteAt(b, 7 + i) # 0 THEN E57_ERROR_BAD_CV_PACKET
        ELSE IF bufferLength > 0 /\ packetLength > bufferLength THEN E57_ERROR_BAD_CV_PACKET
        ELSE IF packetLength < neededLength THEN E57_ERROR_BAD_CV_PACKET
        ELSE IF maxDebug
        THEN IndexPacket_verifyMaxDebug(b, neededLength, packetLength, totalRecordCount, fileSize)
        ELSE E57_SUCCESS

IndexPacket_verify(b, bufferLength, totalRecordCount, fileSize, maxDebug) ==
    LET packetLength == U16(b, 2) + 1
        entryCount == U16(b, 4)
        indexLevel == ByteAt(b, 6)
        neededLength == 16 + 8 * entryCount
    IN  IF ByteAt(b, 0) # E57_INDEX_PACKET THEN E57_ERROR_BAD_CV_PACKET
        ELSE IF packetLength < SizeofIndexPacket THEN E57_ERROR_BAD_CV_PACKET
        ELSE IF packetLength % 4 # 0 THEN E57_ERROR_BAD_CV_PACKET
        ELSE IF entryCount = 0 THEN E57_ERROR_BAD_CV_PACKET
        ELSE IF entryCount > MAX_ENTRIES THEN E57_ERROR_BAD_CV_PACKET
        ELSE IF indexLevel > 5 THEN E57_ERROR_BAD_CV_PACKET
        ELSE IF indexLevel > 0 /\ entryCount < 2 THEN E57_ERROR_BAD_CV_PACKET
        ELSE IF \E i \in 0 .. 8 : ByteAt(b, 7 + i) # 0 THEN E57_ERROR_BAD_CV_PACKET
        ELSE IF bufferLength > 0 /\ packetLength > bufferLength THEN E57_ERROR_BAD_CV_PACKET
        ELSE IF packetLength < neededLength THEN E57_ERROR_BAD_CV_PACKET
        ELSE IF maxDebug
        THEN IndexPacket_verifyMaxDebug(b, neededLength, packetLength, totalRecordCount, fileSize)
        ELSE E57_SUCCESS

\* ------------------------------------------------------------------------
\* CheckedFile collaborator: read(buf, n) after seek(off)

\* a read that starts at or runs past the end of the file fails
File_canRead(file, off, n) == off \in DOMAIN file /\ n <= file[off].len

\* ------------------------------------------------------------------------
\* PacketReadCache state

VARIABLES
    packetCount,   \* entries_.size(), fixed by the constructor
    maxDebug,      \* TRUE when the build defines E57_MAX_DEBUG
    lockCount_,
    useCount_,     \* unsigned; Spec stops at MaxUse, SpecWrap wraps at 2^UseBits
    entries_,      \* slot index -> [logicalOffset_, buffer_, lastUsed_]
    locks,         \* the live PacketLock objects, each its cacheIndex_
    pkt,           \* the caller's char*& : index of the slot whose buffer it points to
    call,          \* the last call and what its caller saw of it
    lastLock,      \* the latest call of lock: its offset (0 if it failed) and loads
    recency,       \* slots in order of their last successful lock, oldest first
    directs,       \* number of calls of unlock made outside a guard
    gen,           \* the fields a packet under verification was written from
    packet,        \* the bytes of that packet
    out            \* the last call on that packet and what it returned

cacheVars == <<packetCount, lockCount_, useCount_, entries_, locks, pkt,
               call, lastLock, recency, directs>>

packetVars == <<gen, packet, out>>

vars == <<cacheVars, maxDebug, packetVars>>

Slots == 0 .. (packetCount - 1)

NullPkt == -1
NoSlot == -1

NoCall == [op |-> "new", off |-> 0, result |-> E57_SUCCESS, slot |-> NoSlot,
           hit |-> FALSE, again |-> FALSE, evicted |-> 0, seeks |-> 0, reads |-> 0,
           unlocked |-> E57_SUCCESS]

NoLock == [off |-> 0, loads |-> 0]

NoOffset == -1
NoCount == -1

NoGen == [kind |-> "none", type |-> 0, flags |-> 0, length |-> 0, lens |-> <<>>,
          dirty |-> -1, count |-> 0, level |-> 0, resv |-> -1, order |-> "none"]

NoOut == [op |-> "none", bufferLength |-> 0, totalRecordCount |-> 0, fileSize |-> 0,
          n |-> 0, result |-> E57_SUCCESS, offset |-> NoOffset, byteCount |-> NoCount,
          reads |-> 0, bytesRead |-> 0, restored |-> FALSE]

\* PacketReadCache::PacketReadCache
Init ==
    /\ packetCount \in 1 .. MaxSlots
    /\ maxDebug \in BOOLEAN
    /\ lockCount_ = 0
    /\ useCount_ = 0
    /\ entries_ = [i \in 0 .. (packetCount - 1) |->
                     [logicalOffset_ |-> 0, buffer_ |-> NoBytes, lastUsed_ |-> 0]]
    /\ locks = <<>>
    /\ pkt = NullPkt
    /\ call = NoCall
    /\ lastLock = NoLock
    /\ recency = <<>>
    /\ directs = 0
    /\ gen = NoGen
    /\ packet = NoBytes
    /\ out = NoOut

FindEntry_Miss(e, off, i) == NoSlot

\* the linear scan of lock for a matching offset: first matching index from i on
RECURSIVE FindEntry(_, _, _)
FindEntry(e, off, i) ==
    IF i >= Cardinality(DOMAIN e) THEN NoSlot
    ELSE IF off = e[i].logicalOffset_ THEN i
    ELSE FindEntry(e, off, i + 1)

RECURSIVE OldestScan_LastMin(_, _, _, _)
OldestScan_LastMin(e, i, oldestEntry, oldestUsed) ==
    IF i >= Cardinality(DOMAIN e) THEN oldestEntry
    ELSE IF e[i].lastUsed_ <= oldestUsed
         THEN OldestScan_LastMin(e, i + 1, i, e[i].lastUsed_)
         ELSE OldestScan_LastMin(e, i + 1, oldestEntry, oldestUsed)

\* the scan of lock for the least recently used entry
RECURSIVE OldestScan(_, _, _, _)
OldestScan(e, i, oldestEntry, oldestUsed) ==
    IF i >= Cardinality(DOMAIN e) THEN oldestEntry
    ELSE IF e[i].lastUsed_ < oldestUsed
         THEN OldestScan(e, i + 1, i, e[i].lastUsed_)
         ELSE OldestScan(e, i + 1, oldestEntry, oldestUsed)

OldestEntry(e) == OldestScan(e, 0, 0, e[0].lastUsed_)

\* switch (header.packetType) of readPacket on the bytes now in the buffer
VerifyByType(packetType, buf, packetLength, dbg) ==
    IF packetType = E57_DATA_PACKET THEN DataPacket_verify(buf, packetLength)
    ELSE IF packetType = E57_INDEX_PACKET THEN IndexPacket_verify(buf, packetLength, 0, 0, dbg)
    ELSE IF packetType = E57_EMPTY_PACKET THEN EmptyPacketHeader_verify(buf, packetLength)
    ELSE E57_ERROR_INTERNAL

\* ++useCount_ on a counter of w bits. At the full width the runs stop (MaxUse)
\* long before the wrap, so the increment is plain there.
Bump(use, w) == IF w = UnsignedBits THEN use + 1 ELSE (use + 1) % (2 ^ w)

\* the end of readPacket: the new offset and a fresh stamp, ++useCount_
FilledEntry_StaleStamp(off, buf, use, w) ==
    [logicalOffset_ |-> off, buffer_ |-> buf, lastUsed_ |-> use]

FilledEntry(off, buf, use, w) ==
    [logicalOffset_ |-> off, buffer_ |-> buf, lastUsed_ |-> Bump(use, w)]

\* readPacket taking the length field for the length
ReadPacket_LengthField(file, w, e, use, oldestEntry, off, dbg) ==
    IF ~File_canRead(file, off, SizeofEmptyPacketHeader)
    THEN [result |-> E57_ERROR_READ_FAILED, entry |-> e[oldestEntry], useCount |-> use,
          seeks |-> 1, reads |-> 1, bytes |-> 0]
    ELSE
    LET header == Prefix(file[off], SizeofEmptyPacketHeader)
        packetLength == U16(header, 2)
    IN  IF packetLength > E57_DATA_PACKET_MAX
        THEN [result |-> E57_ERROR_BAD_CV_PACKET, entry |-> e[oldestEntry], useCount |-> use,
              seeks |-> 1, reads |-> 1, bytes |-> 0]
        ELSE IF ~File_canRead(file, off, packetLength)
        THEN [result |-> E57_ERROR_READ_FAILED, entry |-> e[oldestEntry], useCount |-> use,
              seeks |-> 2, reads |-> 2, bytes |-> packetLength]
        ELSE
        LET buf == Overwrite(e[oldestEntry].buffer_, file[off], packetLength)
            res == VerifyByType(ByteAt(header, 0), buf, packetLength, dbg)
        IN  IF res # E57_SUCCESS
            THEN [result |-> res,
                  entry |-> [e[oldestEntry] EXCEPT !.buffer_ = buf],
                  useCount |-> use, seeks |-> 2, reads |-> 2, bytes |-> packetLength]
            ELSE [result |-> E57_SUCCESS,
                  entry |-> FilledEntry(off, buf, use, w),
                  useCount |-> Bump(use, w), seeks |-> 2, reads |-> 2,
                  bytes |-> packetLength]

\* readPacket counting the use before the packet is verified
ReadPacket_StampFirst(file, w, e, use, oldestEntry, off, dbg) ==
    IF ~File_canRead(file, off, SizeofEmptyPacketHeader)
    THEN [result |-> E57_ERROR_READ_FAILED, entry |-> e[oldestEntry], useCount |-> use,
          seeks |-> 1, reads |-> 1, bytes |-> 0]
    ELSE
    LET header == Prefix(file[off], SizeofEmptyPacketHeader)
        packetLength == U16(header, 2) + 1
    IN  IF packetLength > E57_DATA_PACKET_MAX
        THEN [result |-> E57_ERROR_BAD_CV_PACKET, entry |-> e[oldestEntry], useCount |-> use,
              seeks |-> 1, reads |-> 1, bytes |-> 0]
        ELSE IF ~File_canRead(file, off, packetLength)
        THEN [result |-> E57_ERROR_READ_FAILED, entry |-> e[oldestEntry], useCount |-> use,
              seeks |-> 2, reads |-> 2, bytes |-> packetLength]
        ELSE
        LET buf == Overwrite(e[oldestEntry].buffer_, file[off], packetLength)
            res == VerifyByType(ByteAt(header, 0), buf, packetLength, dbg)
        IN  IF res # E57_SUCCESS
            THEN [result |-> res,
                  entry |-> [e[oldestEntry] EXCEPT !.buffer_ = buf],
                  useCount |-> Bump(use, w), seeks |-> 2, reads |-> 2,
                  bytes |-> packetLength]
            ELSE [result |-> E57_SUCCESS,
                  entry |-> FilledEntry(off, buf, use, w),
                  useCount |-> Bump(use, w), seeks |-> 2, reads |-> 2,
                  bytes |-> packetLength]

\* PacketReadCache::readPacket on the file `file`: the error thrown, the entry
\* and useCount_ it leaves behind, the seeks and reads it issued on the file and
\* the number of bytes the full-packet read asked for
ReadPacket(file, w, e, use, oldestEntry, off, dbg) ==
    IF ~File_canRead(file, off, SizeofEmptyPacketHeader)
    THEN [result |-> E57_ERROR_READ_FAILED, entry |-> e[oldestEntry], useCount |-> use,
          seeks |-> 1, reads |-> 1, bytes |-> 0]
    ELSE
    LET header == Prefix(file[off], SizeofEmptyPacketHeader)
        packetLength == U16(header, 2) + 1
    IN  IF packetLength > E57_DATA_PACKET_MAX
        THEN [result |-> E57_ERROR_BAD_CV_PACKET, entry |-> e[oldestEntry], useCount |-> use,
              seeks |-> 1, reads |-> 1, bytes |-> 0]
        ELSE IF ~File_canRead(file, off, packetLength)
        THEN [result |-> E57_ERROR_READ_FAILED, entry |-> e[oldestEntry], useCount |-> use,
              seeks |-> 2, reads |-> 2, bytes |-> packetLength]
        ELSE
        LET buf == Overwrite(e[oldestEntry].buffer_, file[off], packetLength)
            res == VerifyByType(ByteAt(header, 0), buf, packetLength, dbg)
        IN  IF res # E57_SUCCESS
            THEN [result |-> res,
                  entry |-> [e[oldestEntry] EXCEPT !.buffer_ = buf],
                  useCount |-> use, seeks |-> 2, reads |-> 2, bytes |-> packetLength]
            ELSE [result |-> E57_SUCCESS,
                  entry |-> FilledEntry(off, buf, use, w),
                  useCount |-> Bump(use, w), seeks |-> 2, reads |-> 2,
                  bytes |-> packetLength]

LockPrecheck_NoLockCheck(lockCount, off) ==
    IF off = 0 THEN E57_ERROR_INTERNAL ELSE E57_SUCCESS

LockPrecheck_NoZeroCheck(lockCount, off) ==
    IF lockCount > 0 THEN E57_ERROR_INTERNAL ELSE E57_SUCCESS

\* the two checks at the top of lock
LockPrecheck(lockCount, off) ==
    IF lockCount > 0 THEN E57_ERROR_INTERNAL
    ELSE IF off = 0 THEN E57_ERROR_INTERNAL
    ELSE E57_SUCCESS

HitEntry_NoBump(entry, use, w) == entry

\* the hit path of lock: entries_[i].lastUsed_ = ++useCount_
HitEntry(entry, use, w) == [entry EXCEPT !.lastUsed_ = Bump(use, w)]

Unlock_NoDecrement(lockCount) ==
    IF lockCount # 1 THEN [result |-> E57_ERROR_INTERNAL, lockCount |-> lockCount]
    ELSE [result |-> E57_SUCCESS, lockCount |-> lockCount]

\* PacketReadCache::unlock: the error thrown and the lockCount_ it leaves
Unlock(lockCount) ==
    IF lockCount # 1 THEN [result |-> E57_ERROR_INTERNAL, lockCount |-> lockCount]
    ELSE [result |-> E57_SUCCESS, lockCount |-> lockCount - 1]

\* history kept for the properties: a load is a full-packet read into a slot
Remember(c) == [off   |-> IF c.result = E57_SUCCESS THEN c.off ELSE 0,
                loads |-> IF c.reads = 2 THEN 1 ELSE 0]

Touch(order, i) == Append(SelectSeq(order, LAMBDA j : j # i), i)

RemoveAt(q, k) == [j \in 1 .. (Len(q) - 1) |-> IF j < k THEN q[j] ELSE q[j + 1]]

\* PacketReadCache::lock(packetLogicalOffset, pkt) with counters of w bits
LockWith(off, w) ==
    /\ w = UnsignedBits => useCount_ < MaxUse
    /\ LET pre    == LockPrecheck(lockCount_, off)
           i      == FindEntry(entries_, off, 0)
           oldest == OldestEntry(entries_)
           r      == ReadPacket(File, w, entries_, useCount_, oldest, off, maxDebug)
           c      == [NoCall EXCEPT !.op = "lock", !.off = off,
                                    !.again = (off # 0 /\ off = lastLock.off)]
       IN  IF pre # E57_SUCCESS
           THEN /\ call' = [c EXCEPT !.result = pre]
                /\ UNCHANGED <<lockCount_, useCount_, entries_, locks, pkt, recency>>
           ELSE IF i # NoSlot
           THEN /\ entries_' = [entries_ EXCEPT ![i] = HitEntry(entries_[i], useCount_, w)]
                /\ useCount_' = Bump(useCount_, w)
                /\ pkt' = i
                /\ locks' = Append(locks, i)
                /\ lockCount_' = lockCount_ + 1
                /\ recency' = Touch(recency, i)
                /\ call' = [c EXCEPT !.slot = i, !.hit = TRUE]
           ELSE IF r.result # E57_SUCCESS
           THEN /\ entries_' = [entries_ EXCEPT ![oldest] = r.entry]
                /\ useCount_' = r.useCount
                /\ call' = [c EXCEPT !.result = r.result, !.slot = oldest,
                                     !.seeks = r.seeks, !.reads = r.reads]
                /\ UNCHANGED <<lockCount_, locks, pkt, recency>>
           ELSE /\ entries_' = [entries_ EXCEPT ![oldest] = r.entry]
                /\ useCount_' = r.useCount
                /\ pkt' = oldest
                /\ locks' = Append(locks, oldest)
                /\ lockCount_' = lockCount_ + 1
                /\ recency' = Touch(recency, oldest)
                /\ call' = [c EXCEPT !.slot = oldest, !.seeks = r.seeks, !.reads = r.reads,
                                     !.evicted = entries_[oldest].logicalOffset_]
    /\ lastLock' = Remember(call')
    /\ UNCHANGED <<packetCount, maxDebug, directs, packetVars>>

\* lock as built: unsigned counters
Lock(off) == LockWith(off, UnsignedBits)

\* PacketLock::~PacketLock of the k-th live guard: unlock inside try/catch(...)
Release(k) ==
    /\ k \in 1 .. Len(locks)
    /\ LET u == Unlock(lockCount_)
       IN  /\ lockCount_' = u.lockCount
           /\ call' = [NoCall EXCEPT !.op = "release", !.slot = locks[k],
                                     !.result = E57_SUCCESS, !.unlocked = u.result]
    /\ locks' = RemoveAt(locks, k)
    /\ UNCHANGED <<packetCount, maxDebug, useCount_, entries_, pkt, lastLock, recency, directs,
                   packetVars>>

\* PacketReadCache::unlock called without a guard (protected: a derived class or friend)
UnlockDirect(lockedEntry) ==
    /\ lockedEntry \in Slots
    /\ directs < MaxDirect
    /\ directs' = directs + 1
    /\ LET u == Unlock(lockCount_)
       IN  /\ lockCount_' = u.lockCount
           /\ call' = [NoCall EXCEPT !.op = "unlock", !.slot = lockedEntry,
                                     !.result = u.result, !.unlocked = u.result]
    /\ UNCHANGED <<packetCount, maxDebug, useCount_, entries_, locks, pkt, lastLock, recency,
                   packetVars>>

LockAny == \E off \in Offsets : Lock(off)
ReleaseAny == \E k \in 1 .. Len(locks) : Release(k)
UnlockAny == \E i \in Slots : UnlockDirect(i)

Next == LockAny \/ ReleaseAny

Spec == Init /\ [][Next]_vars

\* lock with counters of UseBits bits, so that runs cross the wrap of useCount_
LockWrap(off) == LockWith(off, UseBits)

\* the offsets handed to lock in the runs that cross the wrap
WrapOffsets == {0, OffDataA, OffDataB, OffEmpty, OffBadPad}

LockAnyWrap == \E off \in WrapOffsets : LockWrap(off)

NextWrap == LockAnyWrap \/ ReleaseAny

SpecWrap == Init /\ [][NextWrap]_vars

\* the cache driven through lock and its guards, plus direct calls of unlock
NextUnlock == LockAny \/ ReleaseAny \/ UnlockAny

SpecUnlock == Init /\ [][NextUnlock]_vars

TypeOK ==
    /\ lockCount_ \in 0 .. MaxUse
    /\ useCount_ \in 0 .. MaxUse
    /\ pkt \in {NullPkt} \cup Slots

\* ------------------------------------------------------------------------
\* Packets handed to verify and getBytestream

\* getBytestream without the check that the stream lies within the packet
GetBytestream_NoBoundsCheck(b, bytestreamNumber) ==
    LET bytestreamCount == U16(b, 4)
        totalPreceeding == SumBsbLength(b, bytestreamNumber)
        byteCount == BsbLength(b, bytestreamNumber)
    IN  IF ByteAt(b, 0) # E57_DATA_PACKET
        THEN [result |-> E57_ERROR_BAD_CV_PACKET, offset |-> NoOffset, byteCount |-> NoCount]
        ELSE IF bytestreamNumber >= bytestreamCount
        THEN [result |-> E57_ERROR_INTERNAL, offset |-> NoOffset, byteCount |-> NoCount]
        ELSE [result |-> E57_SUCCESS,
              offset |-> SizeofDataPacketHeader + 2 * bytestreamCount + totalPreceeding,
              byteCount |-> byteCount]

\* getBytestream with the loop over the preceding streams running one too far
GetBytestream_SumThroughN(b, bytestreamNumber) ==
    LET bytestreamCount == U16(b, 4)
        totalPreceeding == SumBsbLength(b, bytestreamNumber + 1)
        byteCount == BsbLength(b, bytestreamNumber)
    IN  IF ByteAt(b, 0) # E57_DATA_PACKET
        THEN [result |-> E57_ERROR_BAD_CV_PACKET, offset |-> NoOffset, byteCount |-> NoCount]
        ELSE IF bytestreamNumber >= bytestreamCount
        THEN [result |-> E57_ERROR_INTERNAL, offset |-> NoOffset, byteCount |-> NoCount]
        ELSE IF SizeofDataPacketHeader + 2 * bytestreamCount + totalPreceeding + byteCount
                  > U16(b, 2) + 1
        THEN [result |-> E57_ERROR_INTERNAL, offset |-> NoOffset, byteCount |-> byteCount]
        ELSE [result |-> E57_SUCCESS,
              offset |-> SizeofDataPacketHeader + 2 * bytestreamCount + totalPreceeding,
              byteCount |-> byteCount]

\* DataPacket::getBytestream(bytestreamNumber, byteCount): the error thrown,
\* the position of the returned pointer in the packet, and byteCount
\* (NoCount while the call has not assigned it)
GetBytestream(b, bytestreamNumber) ==
    LET bytestreamCount == U16(b, 4)
        totalPreceeding == SumBsbLength(b, bytestreamNumber)
        byteCount == BsbLength(b, bytestreamNumber)
    IN  IF ByteAt(b, 0) # E57_DATA_PACKET
        THEN [result |-> E57_ERROR_BAD_CV_PACKET, offset |-> NoOffset, byteCount |-> NoCount]
        ELSE IF bytestreamNumber >= bytestreamCount
        THEN [result |-> E57_ERROR_INTERNAL, offset |-> NoOffset, byteCount |-> NoCount]
        ELSE IF SizeofDataPacketHeader + 2 * bytestreamCount + totalPreceeding + byteCount
                  > U16(b, 2) + 1
        THEN [result |-> E57_ERROR_INTERNAL, offset |-> NoOffset, byteCount |-> byteCount]
        ELSE [result |-> E57_SUCCESS,
              offset |-> SizeofDataPacketHeader + 2 * bytestreamCount + totalPreceeding,
              byteCount |-> byteCount]

\* DataPacket::getBytestreamBufferLength: byteCount of getBytestream, no pointer
GetBytestreamBufferLength(b, bytestreamNumber) ==
    LET r == GetBytestream(b, bytestreamNumber)
    IN  IF r.result # E57_SUCCESS
        THEN [result |-> r.result, offset |-> NoOffset, byteCount |-> NoCount]
        ELSE [result |-> E57_SUCCESS, offset |-> NoOffset, byteCount |-> r.byteCount]

\* byte values written into bytestreams and into places that should be zero
StreamByte == 170
DirtyByte == 255

RECURSIVE SumSeq(_)
SumSeq(q) == IF q = <<>> THEN 0 ELSE Head(q) + SumSeq(Tail(q))

\* a sequence of functions merged into one
RECURSIVE Merge(_)
Merge(q) == IF q = <<>> THEN <<>> ELSE Head(q) @@ Merge(Tail(q))

\* data packet: header, length table, bytestreams, one optional non-zero byte
\* at position needed + dirty
DataNeeded(g) == SizeofDataPacketHeader + 2 * Len(g.lens) + SumSeq(g.lens)

EncodeData(g) ==
    LET tableEnd == SizeofDataPacketHeader + 2 * Len(g.lens)
    IN  Header(g.type, g.flags, g.length) @@ Put16(4, Len(g.lens))
        @@ Merge([i \in 1 .. Len(g.lens) |-> Put16(SizeofDataPacketHeader + 2 * (i - 1), g.lens[i])])
        @@ [i \in tableEnd .. (DataNeeded(g) - 1) |-> StreamByte]
        @@ (IF g.dirty >= 0 THEN (DataNeeded(g) + g.dirty) :> DirtyByte ELSE <<>>)

\* the entries an index packet is written with, in the order g.order
IndexEntries(order) ==
    IF order = "sorted" THEN << <<0, 1024>>, <<5, 2048>>, <<9, 4096>> >>
    ELSE << <<0, 1024>>, <<9, 4096>>, <<5, 2048>> >>

\* number of entries written: the packets carry at most three non-zero entries
Written(g) == IF g.count < 3 THEN g.count ELSE 3

\* entry i (from 0) of the packet written from g; entries past the written ones are zero
EntryOf(g, i) == IF i < Written(g) THEN IndexEntries(g.order)[i + 1] ELSE <<0, 0>>

EncodeIndex(g) ==
    Header(g.type, g.flags, g.length) @@ Put16(4, g.count) @@ Put8(6, g.level)
    @@ (IF g.resv >= 0 THEN (7 + g.resv) :> DirtyByte ELSE <<>>)
    @@ Merge([i \in 1 .. Written(g) |->
                Put16(16 + 16 * (i - 1), IndexEntries(g.order)[i][1])
                @@ Put16(24 + 16 * (i - 1), IndexEntries(g.order)[i][2])])

EncodeEmpty(g) == Header(g.type, g.flags, g.length)

\* the packet as it lies in a full-size buffer
Encode(g) ==
    [len |-> E57_DATA_PACKET_MAX,
     nz  |-> IF g.kind = "data" THEN EncodeData(g)
             ELSE IF g.kind = "index" THEN EncodeIndex(g)
             ELSE EncodeEmpty(g)]

\* length tables of at most MaxStreams entries
StreamLens == {0, 1, 10, 20}
LengthTables == UNION {[1 .. n -> StreamLens] : n \in 0 .. MaxStreams}

\* type tag and flags byte: right tag, flag set, wrong tag
Tags(type) == {<<type, 0>>, <<type, 1>>, <<3, 0>>}

DataGens ==
    {[NoGen EXCEPT !.kind = "data", !.type = t[1], !.flags = t[2], !.lens = l,
                   !.count = Len(l), !.dirty = d,
                   !.length = SizeofDataPacketHeader + 2 * Len(l) + SumSeq(l) + s] :
        t \in Tags(E57_DATA_PACKET), l \in LengthTables, d \in {-1, 0, 2}, s \in -2 .. 5}

IndexGens ==
    {[NoGen EXCEPT !.kind = "index", !.type = t[1], !.flags = t[2], !.count = c,
                   !.level = v, !.resv = r, !.order = o, !.length = n] :
        t \in Tags(E57_INDEX_PACKET), c \in {0, 1, 2, 3, MAX_ENTRIES, MAX_ENTRIES + 1},
        v \in {0, 1, 5, 6}, r \in {-1, 0, 8}, o \in {"sorted", "swapped"},
        n \in {48, 64, SizeofIndexPacket, SizeofIndexPacket + 2,
               SizeofIndexPacket + 4, E57_DATA_PACKET_MAX}}

EmptyGens ==
    {[NoGen EXCEPT !.kind = "empty", !.type = t[1], !.flags = t[2], !.length = n] :
        t \in Tags(E57_EMPTY_PACKET), n \in {1, 2, 4, 6, 8, E57_DATA_PACKET_MAX}}

\* the bufferLength arguments tried on a packet of declared length n
BufferLengths(n) == {0, n - 1, n, E57_DATA_PACKET_MAX}

\* a packet to verify lies in memory; the cache is new and stays unused
InitPacket ==
    /\ packetCount = 1
    /\ maxDebug \in BOOLEAN
    /\ lockCount_ = 0
    /\ useCount_ = 0
    /\ entries_ = [i \in 0 .. (packetCount - 1) |->
                     [logicalOffset_ |-> 0, buffer_ |-> NoBytes, lastUsed_ |-> 0]]
    /\ locks = <<>>
    /\ pkt = NullPkt
    /\ call = NoCall
    /\ lastLock = NoLock
    /\ recency = <<>>
    /\ directs = 0
    /\ gen \in DataGens \cup IndexGens \cup EmptyGens
    /\ packet = Encode(gen)
    /\ out = NoOut

VerifyEmptyHeader ==
    /\ gen.kind = "empty"
    /\ \E bl \in BufferLengths(gen.length) :
          out' = [NoOut EXCEPT !.op = "EmptyPacketHeader::verify", !.bufferLength = bl,
                               !.result = EmptyPacketHeader_verify(packet, bl)]
    /\ UNCHANGED <<cacheVars, maxDebug, gen, packet>>

VerifyDataHeader ==
    /\ gen.kind = "data"
    /\ \E bl \in BufferLengths(gen.length) :
          out' = [NoOut EXCEPT !.op = "DataPacketHeader::verify", !.bufferLength = bl,
                               !.result = DataPacketHeader_verify(packet, bl)]
    /\ UNCHANGED <<cacheVars, maxDebug, gen, packet>>

VerifyData ==
    /\ gen.kind = "data"
    /\ \E bl \in BufferLengths(gen.length) :
          out' = [NoOut EXCEPT !.op = "DataPacket::verify", !.bufferLength = bl,
                               !.result = DataPacket_verify(packet, bl)]
    /\ UNCHANGED <<cacheVars, maxDebug, gen, packet>>

VerifyIndex ==
    /\ gen.kind = "index"
    /\ \E bl \in BufferLengths(gen.length), trc \in {0, 6}, fs \in {0, 3000} :
          out' = [NoOut EXCEPT !.op = "IndexPacket::verify", !.bufferLength = bl,
                               !.totalRecordCount = trc, !.fileSize = fs,
                               !.result = IndexPacket_verify(packet, bl, trc, fs, maxDebug)]
    /\ UNCHANGED <<cacheVars, maxDebug, gen, packet>>

CallGetBytestream ==
    /\ gen.kind = "data"
    /\ \E n \in 0 .. MaxStreams :
          LET r == GetBytestream(packet, n)
          IN  out' = [NoOut EXCEPT !.op = "DataPacket::getBytestream", !.n = n,
                                   !.result = r.result, !.offset = r.offset,
                                   !.byteCount = r.byteCount]
    /\ UNCHANGED <<cacheVars, maxDebug, gen, packet>>

CallGetBytestreamBufferLength ==
    /\ gen.kind = "data"
    /\ \E n \in 0 .. MaxStreams :
          LET r == GetBytestreamBufferLength(packet, n)
          IN  out' = [NoOut EXCEPT !.op = "DataPacket::getBytestreamBufferLength", !.n = n,
                                   !.result = r.result, !.byteCount = r.byteCount]
    /\ UNCHANGED <<cacheVars, maxDebug, gen, packet>>

\* uint16_t at pos as a big-endian host reads it
U16BigEndian(b, pos) == 256 * ByteAt(b, pos) + ByteAt(b, pos + 1)

\* where the byte at p goes when packetLogicalLengthMinus1 (2..3), the count
\* (4..5) and the two 8-byte fields of the first cnt entries are byte-swapped
Mirror(p, cnt) ==
    IF p \in 2 .. 3 THEN 5 - p
    ELSE IF p \in 4 .. 5 THEN 9 - p
    ELSE IF p >= 16 /\ p < 16 + 16 * cnt THEN 2 * (p - ((p - 16) % 8)) + 7 - p
    ELSE p

Swabbed(b, cnt) ==
    [len |-> b.len,
     nz  |-> [q \in {Mirror(p, cnt) : p \in DOMAIN b.nz} |-> b.nz[Mirror(q, cnt)]]]

\* DataPacket::swab(toLittleEndian) of the E57_BIGENDIAN build, as its text
\* reads: the type is compared with E57_INDEX_PACKET, and entryCount and
\* entries name the fields IndexPacket has at offsets 4 and 16. The error
\* thrown and the bytes left in the buffer.
DataPacket_swab(b, toLittleEndian) ==
    IF ByteAt(b, 0) # E57_INDEX_PACKET
    THEN [result |-> E57_ERROR_INTERNAL, bytes |-> b]
    ELSE LET goodEntryCount == IF toLittleEndian THEN U16BigEndian(b, 4) ELSE U16(b, 4)
         IN  IF goodEntryCount > MAX_ENTRIES
             THEN [result |-> E57_ERROR_BAD_CV_PACKET, bytes |-> Swabbed(b, 0)]
             ELSE [result |-> E57_SUCCESS, bytes |-> Swabbed(b, goodEntryCount)]

\* a packet read on a big-endian host and written back: dpkt->swab(false) as
\* readPacket calls it on the bytes read, then swab(true) on the result
SwabDataPacket ==
    /\ gen.kind \in {"data", "index"}
    /\ LET r == DataPacket_swab(packet, FALSE)
           w == DataPacket_swab(r.bytes, TRUE)
       IN  out' = [NoOut EXCEPT !.op = "DataPacket::swab", !.result = r.result,
                                !.restored = (r.result = E57_SUCCESS
                                              /\ w.result = E57_SUCCESS
                                              /\ w.bytes = packet)]
    /\ UNCHANGED <<cacheVars, maxDebug, gen, packet>>

\* a new cache of one slot, in front of a file that holds the packet at OffDataA
NewEntries == [i \in {0} |-> [logicalOffset_ |-> 0, buffer_ |-> NoBytes, lastUsed_ |-> 0]]

\* PacketReadCache::readPacket(0, OffDataA) on that cache
CallReadPacket ==
    /\ LET r == ReadPacket(OffDataA :> packet, UnsignedBits, NewEntries, 0, 0, OffDataA,
                           maxDebug)
       IN  out' = [NoOut EXCEPT !.op = "PacketReadCache::readPacket", !.result = r.result,
                                !.reads = r.reads, !.bytesRead = r.bytes]
    /\ UNCHANGED <<cacheVars, maxDebug, gen, packet>>

NextPacket ==
    \/ CallReadPacket
    \/ SwabDataPacket
    \/ VerifyEmptyHeader
    \/ VerifyDataHeader
    \/ VerifyData
    \/ VerifyIndex
    \/ CallGetBytestream
    \/ CallGetBytestreamBufferLength

SpecPacket == InitPacket /\ [][NextPacket]_vars

\* ------------------------------------------------------------------------
\* Properties

\* the file holds at off a packet that its kind's verify accepts
ValidPacketAt(off) ==
    /\ off \in DOMAIN File
    /\ VerifyByType(ByteAt(File[off], 0), File[off], U16(File[off], 2) + 1, maxDebug)
         = E57_SUCCESS

AllFilled == \A i \in Slots : entries_[i].logicalOffset_ # 0

\* C1: a lock made while a guard is outstanding fails with InternalError and
\* changes nothing; releasing the one outstanding guard brings lockCount_ to 0;
\* with no guard outstanding, a lock of a nonzero offset that holds a valid
\* packet succeeds and hands out one guard.
C1_LockAlternatesWithRelease ==
    [][ /\ (call'.op = "lock" /\ Len(locks) > 0) =>
              /\ call'.result = E57_ERROR_INTERNAL
              /\ UNCHANGED <<lockCount_, useCount_, entries_, locks, pkt>>
        /\ (call'.op = "release" /\ Len(locks) = 1) =>
              /\ lockCount_' = 0
              /\ locks' = <<>>
        /\ (call'.op = "lock" /\ Len(locks) = 0 /\ ValidPacketAt(call'.off)) =>
              /\ call'.result = E57_SUCCESS
              /\ Len(locks') = 1
      ]_vars

C1_Witness ==
    /\ call.op = "lock"
    /\ call.result = E57_ERROR_INTERNAL
    /\ ValidPacketAt(call.off)
    /\ Len(locks) = 1
    /\ useCount_ >= 2

\* C2: lockCount_ is 0 or 1, and it is 1 exactly when one guard is live.
C2_LockCountIsGuardCount ==
    /\ lockCount_ \in {0, 1}
    /\ Len(locks) <= 1
    /\ (lockCount_ = 1) <=> (Len(locks) = 1)

C2_Witness ==
    /\ lockCount_ = 1
    /\ Len(locks) = 1
    /\ call.op = "lock"
    /\ call.result = E57_SUCCESS
    /\ useCount_ >= 2

\* C3: every slot with a nonzero logicalOffset_ X holds, in the first bytes of
\* its buffer, the packet the file has at X, and that packet verifies.
C3_FilledSlotsHoldTheirPacket ==
    \A i \in Slots :
        LET off == entries_[i].logicalOffset_
        IN  off # 0 =>
              /\ ValidPacketAt(off)
              /\ Prefix(entries_[i].buffer_, File[off].len) = File[off]

\* C4: while a guard is outstanding, no step changes the buffer or the
\* logicalOffset_ of the slot the guard is bound to.
C4_LockedSlotUntouched ==
    [][ (lockCount_ = 1 /\ Len(locks) = 1) =>
            /\ entries_'[locks[1]].buffer_ = entries_[locks[1]].buffer_
            /\ entries_'[locks[1]].logicalOffset_ = entries_[locks[1]].logicalOffset_
      ]_vars

C4_Witness ==
    /\ lockCount_ = 1
    /\ Len(locks) = 1
    /\ call.op = "lock"
    /\ call.off \in DOMAIN File
    /\ \A i \in Slots : entries_[i].logicalOffset_ # call.off
    /\ entries_[locks[1]].logicalOffset_ # 0

\* C5: a lock of an offset that a slot already holds issues no seek and no
\* read, returns that slot's buffer, changes no buffer and no offset, and
\* changes lastUsed_ of that slot only; a lock that repeats the offset of the
\* preceding (successful, released) lock loads nothing, so the two calls
\* together load the packet at most once.
C5_HitDoesNoIO ==
    [][ /\ (call'.op = "lock" /\ lockCount_ = 0 /\ call'.off # 0
              /\ \E i \in Slots : entries_[i].logicalOffset_ = call'.off) =>
              \E i \in Slots :
                  /\ entries_[i].logicalOffset_ = call'.off
                  /\ call'.result = E57_SUCCESS
                  /\ call'.hit
                  /\ call'.seeks = 0
                  /\ call'.reads = 0
                  /\ pkt' = i
                  /\ entries_'[i].lastUsed_ = useCount_'
                  /\ useCount_' = useCount_ + 1
                  /\ \A j \in Slots :
                        /\ entries_'[j].buffer_ = entries_[j].buffer_
                        /\ entries_'[j].logicalOffset_ = entries_[j].logicalOffset_
                        /\ j # i => entries_'[j].lastUsed_ = entries_[j].lastUsed_
        /\ (call'.op = "lock" /\ lockCount_ = 0 /\ call'.again) =>
              /\ call'.result = E57_SUCCESS
              /\ call'.reads = 0
              /\ lastLock'.loads = 0
              /\ lastLock.loads + lastLock'.loads <= 1
      ]_vars

C5_Witness ==
    /\ call.op = "lock"
    /\ call.again
    /\ call.hit
    /\ call.result = E57_SUCCESS
    /\ call.reads = 0

\* C6: when every slot holds an offset, a lock that misses loads into the slot
\* whose last successful lock is the oldest, and leaves the offset and the
\* buffer of every other slot as they were.
C6_EvictsLeastRecentlyUsed ==
    [][ (call'.op = "lock" /\ call'.result = E57_SUCCESS /\ ~call'.hit /\ AllFilled) =>
            /\ Len(recency) = packetCount
            /\ call'.slot = Head(recency)
            /\ call'.evicted = entries_[Head(recency)].logicalOffset_
            /\ entries_'[call'.slot].logicalOffset_ = call'.off
            /\ \A j \in Slots : j # call'.slot =>
                  /\ entries_'[j].buffer_ = entries_[j].buffer_
                  /\ entries_'[j].logicalOffset_ = entries_[j].logicalOffset_
      ]_vars

C6_Witness ==
    /\ packetCount >= 2
    /\ call.op = "lock"
    /\ call.result = E57_SUCCESS
    /\ ~call.hit
    /\ call.evicted # 0
    /\ call.slot # 0
    /\ useCount_ > packetCount + 1

\* C7: a lock that misses reads into the slot with the least lastUsed_, and
\* among the slots with that least stamp into the one of lowest index.
C7_MissPicksFirstMinimum ==
    [][ (call'.op = "lock" /\ ~call'.hit /\ call'.slot # NoSlot) =>
            /\ \A j \in Slots :
                  /\ entries_[call'.slot].lastUsed_ <= entries_[j].lastUsed_
                  /\ j < call'.slot => entries_[j].lastUsed_ > entries_[call'.slot].lastUsed_
            /\ call'.result = E57_SUCCESS =>
                  /\ entries_'[call'.slot].logicalOffset_ = call'.off
                  /\ Prefix(entries_'[call'.slot].buffer_, File[call'.off].len) = File[call'.off]
      ]_vars

C7_Witness ==
    /\ packetCount >= 2
    /\ call.op = "lock"
    /\ call.result = E57_SUCCESS
    /\ ~call.hit
    /\ call.slot = 0
    /\ \E j \in Slots : j # 0 /\ entries_[j].lastUsed_ = 0

\* C8: a successful lock(off), hit or miss, leaves lockCount_ = 1, one guard
\* bound to the chosen slot, pkt on that slot's buffer, the slot's
\* logicalOffset_ = off, useCount_ one larger, and the slot's lastUsed_ equal
\* to the new useCount_ and above every other slot's stamp.
C8_SuccessfulLockPostcondition ==
    [][ (call'.op = "lock" /\ call'.result = E57_SUCCESS) =>
            /\ call'.slot \in Slots
            /\ lockCount_' = 1
            /\ locks' = <<call'.slot>>
            /\ pkt' = call'.slot
            /\ entries_'[call'.slot].logicalOffset_ = call'.off
            /\ useCount_' = useCount_ + 1
            /\ entries_'[call'.slot].lastUsed_ = useCount_'
            /\ \A j \in Slots : j # call'.slot => entries_'[j].lastUsed_ < useCount_'
      ]_vars

C8_Witness ==
    /\ call.op = "lock"
    /\ call.result = E57_SUCCESS
    /\ ~call.hit
    /\ call.evicted # 0
    /\ lockCount_ = 1
    /\ pkt = call.slot

\* C9: lock(0) fails with InternalError in every state, never hits a slot
\* whose logicalOffset_ is 0, hands out no guard and touches nothing.
C9_LockZeroRejected ==
    [][ (call'.op = "lock" /\ call'.off = 0) =>
            /\ call'.result = E57_ERROR_INTERNAL
            /\ ~call'.hit
            /\ call'.slot = NoSlot
            /\ UNCHANGED <<lockCount_, useCount_, entries_, locks, pkt>>
      ]_vars

C9_Witness ==
    /\ call.op = "lock"
    /\ call.off = 0
    /\ lockCount_ = 0
    /\ \A i \in Slots : entries_[i].logicalOffset_ = 0

\* C10: a release made when lockCount_ is not 1, through a guard or through
\* unlock itself, reports InternalError to the code that made it and leaves
\* lockCount_ as it was.
C10_BadReleaseIsReported ==
    [][ (call'.op \in {"release", "unlock"} /\ lockCount_ # 1) =>
            /\ call'.result = E57_ERROR_INTERNAL
            /\ lockCount_' = lockCount_
      ]_vars

\* C11: a packet read by the cache whose type tag is none of 0, 1, 2 is
\* reported to the caller of lock as a bad-packet (format) error.
C11_UnknownTypeIsBadFormat ==
    (/\ call.op = "lock"
     /\ call.reads = 2
     /\ call.off \in DOMAIN File
     /\ ByteAt(File[call.off], 0) \notin {E57_INDEX_PACKET, E57_DATA_PACKET, E57_EMPTY_PACKET})
    => call.result = E57_ERROR_BAD_CV_PACKET

\* the fixed header size of each packet kind
FixedHeaderSize(kind) ==
    IF kind = "data" THEN SizeofDataPacketHeader
    ELSE IF kind = "index" THEN SizeofIndexPacketHeader
    ELSE SizeofEmptyPacketHeader

HeaderVerifyOps == {"EmptyPacketHeader::verify", "DataPacketHeader::verify", "IndexPacket::verify"}

\* what the verify call recorded in out returns when given another bufferLength
ReVerify(bufferLength) ==
    IF out.op = "EmptyPacketHeader::verify" THEN EmptyPacketHeader_verify(packet, bufferLength)
    ELSE IF out.op = "DataPacketHeader::verify" THEN DataPacketHeader_verify(packet, bufferLength)
    ELSE IF out.op = "DataPacket::verify" THEN DataPacket_verify(packet, bufferLength)
    ELSE IndexPacket_verify(packet, bufferLength, out.totalRecordCount, out.fileSize, maxDebug)

\* C12: a packet accepted by EmptyPacketHeader::verify, DataPacketHeader::verify
\* or IndexPacket::verify has a declared length of at least the fixed header
\* size of its kind, a multiple of 4, and at most bufferLength when
\* bufferLength > 0; with bufferLength = 0 the result is what a buffer large
\* enough for any packet gives.
C12_AcceptedLengthIsSane ==
    out.op \in HeaderVerifyOps =>
       /\ out.result = E57_SUCCESS =>
             /\ gen.length >= FixedHeaderSize(gen.kind)
             /\ gen.length % 4 = 0
             /\ out.bufferLength > 0 => gen.length <= out.bufferLength
       /\ out.bufferLength = 0 => out.result = ReVerify(E57_DATA_PACKET_MAX)

C12_Witness ==
    /\ out.op = "DataPacketHeader::verify"
    /\ out.result = E57_SUCCESS
    /\ out.bufferLength = gen.length
    /\ gen.length < E57_DATA_PACKET_MAX

\* C13: for a data packet accepted by DataPacket::verify, needed = 6 +
\* 2*bytestreamCount + the sum of the length table lies between declared
\* length - 3 and declared length, and the bytes from needed up to the declared
\* length are zero.
C13_DataPacketSizeAccounting ==
    (out.op = "DataPacket::verify" /\ out.result = E57_SUCCESS) =>
       /\ DataNeeded(gen) <= gen.length
       /\ gen.length <= DataNeeded(gen) + 3
       /\ \A i \in DataNeeded(gen) .. (gen.length - 1) : ByteAt(packet, i) = 0

\* accepted with two padding bytes and a non-zero byte right after the packet
C13_Witness ==
    /\ out.op = "DataPacket::verify"
    /\ out.result = E57_SUCCESS
    /\ gen.length = DataNeeded(gen) + 2
    /\ gen.dirty = 2

\* a data packet with the right type tag, at least one bytestream and nothing
\* but zero bytes from needed up to its declared length, verified against a
\* buffer that holds it
WellFormedData ==
    /\ out.op = "DataPacket::verify"
    /\ gen.type = E57_DATA_PACKET
    /\ gen.flags = 0
    /\ Len(gen.lens) >= 1
    /\ \A i \in DataNeeded(gen) .. (gen.length - 1) : ByteAt(packet, i) = 0
    /\ out.bufferLength = 0 \/ out.bufferLength >= gen.length

\* C14 as stated: DataPacket::verify accepts a declared length that exceeds
\* needed by 0 to 3 zero bytes and rejects one that exceeds it by 4 or more;
\* with the length table {10,20} (needed = 40) length 43 verifies and 44 fails.
C14_SlackUpToThreeAccepted ==
    WellFormedData =>
       /\ (gen.length - DataNeeded(gen) \in 0 .. 3) => out.result = E57_SUCCESS
       /\ gen.length - DataNeeded(gen) >= 4 => out.result = E57_ERROR_BAD_CV_PACKET
       /\ (gen.lens = <<10, 20>> /\ gen.length = 43) => out.result = E57_SUCCESS
       /\ (gen.lens = <<10, 20>> /\ gen.length = 44) => out.result = E57_ERROR_BAD_CV_PACKET

\* C14 amended: DataPacket::verify accepts a declared length that is a multiple
\* of 4 and exceeds needed by 0 to 3 zero bytes, and rejects any other; with
\* the length table {10,20} (needed = 40) length 40 verifies, 43 and 44 fail.
C14_AlignedSlackUpToThreeAccepted ==
    WellFormedData =>
       /\ (gen.length % 4 = 0 /\ gen.length - DataNeeded(gen) \in 0 .. 3)
             => out.result = E57_SUCCESS
       /\ (gen.length % 4 # 0 \/ gen.length - DataNeeded(gen) >= 4)
             => out.result = E57_ERROR_BAD_CV_PACKET
       /\ (gen.lens = <<10, 20>> /\ gen.length = 40) => out.result = E57_SUCCESS
       /\ (gen.lens = <<10, 20>> /\ gen.length \in {43, 44})
             => out.result = E57_ERROR_BAD_CV_PACKET

C14_Witness ==
    /\ WellFormedData
    /\ gen.lens = <<10, 20>>
    /\ gen.length = 40
    /\ out.result = E57_SUCCESS

\* C15: a level-0 index packet with entryCount = 3, the entries (0,1024),
\* (5,2048), (9,4096) in this order, zero reserved bytes and declared length
\* 64 (header and three entries) is accepted by IndexPacket::verify.
C15_ThreeEntryIndexPacketVerifies ==
    (/\ out.op = "IndexPacket::verify"
     /\ gen.type = E57_INDEX_PACKET
     /\ gen.flags = 0
     /\ gen.count = 3
     /\ gen.level = 0
     /\ gen.resv = -1
     /\ gen.order = "sorted"
     /\ gen.length = SizeofIndexPacketHeader + 16 * 3
     /\ out.bufferLength = 0
     /\ out.totalRecordCount = 0
     /\ out.fileSize = 0)
    => out.result = E57_SUCCESS

\* C16: in every index packet accepted by IndexPacket::verify the record
\* numbers and the physical offsets of the entries are strictly increasing; a
\* packet with two entries swapped is rejected with a bad-packet error.
C16_AcceptedIndexIsMonotonic ==
    /\ (out.op = "IndexPacket::verify" /\ out.result = E57_SUCCESS) =>
          \A i \in 1 .. (U16(packet, 4) - 1) :
             /\ ChunkRecordNumber(packet, i - 1) < ChunkRecordNumber(packet, i)
             /\ ChunkPhysicalOffset(packet, i - 1) < ChunkPhysicalOffset(packet, i)
    /\ (out.op = "IndexPacket::verify" /\ gen.order = "swapped" /\ gen.count = 3) =>
          out.result = E57_ERROR_BAD_CV_PACKET

\* C17: an index packet accepted by IndexPacket::verify has 1 <= entryCount <=
\* 2048, indexLevel <= 5, entryCount >= 2 when indexLevel > 0 and nine zero
\* reserved1 bytes; a data packet accepted by DataPacketHeader::verify has
\* bytestreamCount >= 1; a zero entryCount or bytestreamCount is rejected with
\* a bad-packet error whatever the other fields are.
C17_CountAndFieldBounds ==
    /\ (out.op = "IndexPacket::verify" /\ out.result = E57_SUCCESS) =>
          /\ gen.count >= 1
          /\ gen.count <= MAX_ENTRIES
          /\ gen.level <= 5
          /\ gen.level > 0 => gen.count >= 2
          /\ \A i \in 0 .. 8 : ByteAt(packet, 7 + i) = 0
    /\ (out.op = "DataPacketHeader::verify" /\ out.result = E57_SUCCESS) =>
          Len(gen.lens) >= 1
    /\ (out.op = "IndexPacket::verify" /\ gen.count = 0) =>
          out.result = E57_ERROR_BAD_CV_PACKET
    /\ (out.op = "DataPacketHeader::verify" /\ Len(gen.lens) = 0) =>
          out.result = E57_ERROR_BAD_CV_PACKET

\* a full index packet of the highest level is accepted
C17_Witness ==
    /\ out.op = "IndexPacket::verify"
    /\ out.result = E57_SUCCESS
    /\ gen.count = MAX_ENTRIES
    /\ gen.level = 5

\* the verify functions readPacket applies to a packet read from the file
PacketVerifyOps ==
    {"EmptyPacketHeader::verify", "DataPacketHeader::verify", "DataPacket::verify",
     "IndexPacket::verify"}

\* C18: a data, index or empty packet whose byte at offset 1 (flags, reserved)
\* is not zero fails verification with a bad-packet error.
C18_NonZeroFlagsRejected ==
    (out.op \in PacketVerifyOps /\ ByteAt(packet, 1) # 0) =>
       out.result = E57_ERROR_BAD_CV_PACKET

\* the first n entries of a length table
FirstLens(lens, n) == SubSeq(lens, 1, n)

\* C19: on a data packet, getBytestream(i) with i >= bytestreamCount fails with
\* an internal error; for i < bytestreamCount a returned view ends within the
\* declared packet length, and a view that would end past it is not returned.
C19_BytestreamWithinPacket ==
    (out.op = "DataPacket::getBytestream" /\ gen.type = E57_DATA_PACKET) =>
       /\ out.n >= Len(gen.lens) => out.result = E57_ERROR_INTERNAL
       /\ (out.n < Len(gen.lens) /\ out.result = E57_SUCCESS) =>
             out.offset + out.byteCount <= gen.length
       /\ (/\ out.n < Len(gen.lens)
           /\ SizeofDataPacketHeader + 2 * Len(gen.lens)
                 + SumSeq(FirstLens(gen.lens, out.n + 1)) > gen.length) =>
             out.result # E57_SUCCESS

\* a stream of a packet whose declared length is too short for its table
C19_Witness ==
    /\ out.op = "DataPacket::getBytestream"
    /\ gen.type = E57_DATA_PACKET
    /\ out.n < Len(gen.lens)
    /\ out.result = E57_ERROR_INTERNAL

\* C20: for a data packet and n < bytestreamCount, getBytestream(n) returns the
\* n-th entry of the length table as length and 6 + 2*bytestreamCount + the sum
\* of the entries before n as offset; getBytestreamBufferLength(n) returns the
\* same length. On a packet DataPacket::verify accepts both calls return.
C20_BytestreamViewFromTable ==
    (/\ out.op \in {"DataPacket::getBytestream", "DataPacket::getBytestreamBufferLength"}
     /\ gen.type = E57_DATA_PACKET
     /\ out.n < Len(gen.lens)) =>
       /\ DataPacket_verify(packet, 0) = E57_SUCCESS => out.result = E57_SUCCESS
       /\ out.result = E57_SUCCESS => out.byteCount = gen.lens[out.n + 1]
       /\ (out.result = E57_SUCCESS /\ out.op = "DataPacket::getBytestream") =>
             out.offset = SizeofDataPacketHeader + 2 * Len(gen.lens)
                             + SumSeq(FirstLens(gen.lens, out.n))

\* the second stream of a verified packet, behind a first stream of 10 bytes
C20_Witness ==
    /\ out.op = "DataPacket::getBytestream"
    /\ gen.type = E57_DATA_PACKET
    /\ gen.lens = <<10, 20>>
    /\ out.n = 1
    /\ DataPacket_verify(packet, 0) = E57_SUCCESS
    /\ out.result = E57_SUCCESS
    /\ out.offset = 20

\* C21: readPacket never asks for more than 65536 bytes in its full-packet
\* read: the read asks for the declared length, which the 16-bit length field
\* keeps within 65536, and a declared length above 65536 is rejected with a
\* bad-packet error after the header read alone.
C21_FullReadWithinBuffer ==
    out.op = "PacketReadCache::readPacket" =>
       /\ out.bytesRead <= E57_DATA_PACKET_MAX
       /\ out.reads = 2 => out.bytesRead = gen.length
       /\ gen.length > E57_DATA_PACKET_MAX =>
             (out.result = E57_ERROR_BAD_CV_PACKET /\ out.reads = 1)

\* the largest declared length, length field 0xFFFF, read in full
C21_Witness ==
    /\ out.op = "PacketReadCache::readPacket"
    /\ gen.length = E57_DATA_PACKET_MAX
    /\ out.reads = 2
    /\ out.bytesRead = E57_DATA_PACKET_MAX
    /\ out.result = E57_SUCCESS

\* no two slots hold the same non-zero logicalOffset_
DistinctOffsets ==
    \A i \in Slots : \A j \in Slots :
       (i # j /\ entries_[i].logicalOffset_ # 0) =>
          entries_[i].logicalOffset_ # entries_[j].logicalOffset_

\* C22: with useCount_ and lastUsed_ wrapping modulo 2^UseBits, in every run
\* of lock and release lockCount_ stays 0 or 1, the non-zero offsets of the
\* slots are distinct, a successful lock hands out the slot that holds the
\* requested offset, and no step changes a slot while a guard locks it.
C22_WrapIsSafe ==
    /\ [](/\ lockCount_ \in {0, 1}
          /\ DistinctOffsets
          /\ (call.op = "lock" /\ call.result = E57_SUCCESS) =>
                (/\ pkt = call.slot
                 /\ entries_[call.slot].logicalOffset_ = call.off
                 /\ call.hit => (call.seeks = 0 /\ call.reads = 0)))
    /\ [][\A k \in 1 .. Len(locks) : entries_'[locks[k]] = entries_[locks[k]]]_vars

\* after the wrap: the slot just locked carries stamp 0 and ranks as the oldest,
\* ahead of a slot used before it
C22_Witness ==
    /\ call.op = "lock"
    /\ call.result = E57_SUCCESS
    /\ packetCount = 2
    /\ AllFilled
    /\ useCount_ = 0
    /\ entries_[call.slot].lastUsed_ = 0
    /\ \A i \in Slots \ {call.slot} : entries_[i].lastUsed_ > 0
    /\ OldestEntry(entries_) = call.slot

\* C24: in every state reached by lock calls, failed ones included, and
\* releases, no two slots hold the same non-zero logicalOffset_.
C24_NoOffsetCachedTwice ==
    \A i \in Slots : \A j \in Slots :
       (i < j /\ entries_[i].logicalOffset_ # 0) =>
          entries_[i].logicalOffset_ # entries_[j].logicalOffset_

\* two filled slots after a load that failed in verification
C24_Witness ==
    /\ packetCount = 2
    /\ AllFilled
    /\ call.op = "lock"
    /\ call.result = E57_ERROR_BAD_CV_PACKET
    /\ call.reads = 2

\* C23: on a big-endian host the data packet readPacket has read is
\* byte-swapped into host order without error before it is verified, and
\* swab(false) followed by swab(true) gives back the bytes on disk.
C23_DataPacketSwabs ==
    (/\ out.op = "DataPacket::swab"
     /\ gen.kind = "data"
     /\ DataPacket_verify(packet, 0) = E57_SUCCESS)
    => (out.result = E57_SUCCESS /\ out.restored)

\* the slots that are as the constructor left them: logicalOffset_ 0, lastUsed_ 0
EmptySlots == {i \in Slots : entries_[i].logicalOffset_ = 0 /\ entries_[i].lastUsed_ = 0}

\* C25: before useCount_ wraps, a miss loads into the first empty slot as long
\* as there is one, so it evicts nothing and the filled slots are 0, 1, ... in
\* index order; after a failed load the slot it aimed at is still the first
\* slot with the smallest stamp, the victim of the next miss.
C25_EmptySlotsFillFirst ==
    /\ [](/\ \A i \in Slots : entries_[i].logicalOffset_ # 0 => entries_[i].lastUsed_ > 0
          /\ \A i \in Slots : \A j \in Slots :
                (i < j /\ entries_[j].logicalOffset_ # 0) => entries_[i].logicalOffset_ # 0
          /\ (call.op = "lock" /\ call.result # E57_SUCCESS /\ call.reads >= 1) =>
                \A j \in Slots :
                   /\ entries_[j].lastUsed_ >= entries_[call.slot].lastUsed_
                   /\ j < call.slot => entries_[j].lastUsed_ > entries_[call.slot].lastUsed_)
    /\ [][(call'.op = "lock" /\ call'.reads >= 1 /\ EmptySlots # {}) =>
             /\ call'.slot \in EmptySlots
             /\ \A i \in EmptySlots : call'.slot <= i
             /\ call'.evicted = 0]_vars

\* the second successful lock of a new cache of two slots loads slot 1
C25_Witness ==
    /\ packetCount = 2
    /\ call.op = "lock"
    /\ call.result = E57_SUCCESS
    /\ call.reads = 2
    /\ call.slot = 1
    /\ call.evicted = 0
    /\ useCount_ = 2
    /\ entries_[0].lastUsed_ = 1

\* C26: on a data packet DataPacket::verify accepts, getBytestream(i) succeeds
\* for every i < bytestreamCount, and the streams it returns lie one after the
\* other, from the end of the length table up to at most the needed length.
C26_VerifierAndAccessorAgree ==
    (/\ out.op = "DataPacket::getBytestream"
     /\ gen.kind = "data"
     /\ DataPacket_verify(packet, 0) = E57_SUCCESS
     /\ out.n < Len(gen.lens)) =>
       /\ out.result = E57_SUCCESS
       /\ out.offset >= SizeofDataPacketHeader + 2 * Len(gen.lens)
       /\ out.n = 0 => out.offset = SizeofDataPacketHeader + 2 * Len(gen.lens)
       /\ out.offset + out.byteCount <= DataNeeded(gen)
       /\ out.n + 1 < Len(gen.lens) =>
             GetBytestream(packet, out.n + 1).offset = out.offset + out.byteCount
       /\ out.n + 1 = Len(gen.lens) => out.offset + out.byteCount = DataNeeded(gen)

\* the first of two non-empty streams of a verified packet that ends in padding
C26_Witness ==
    /\ out.op = "DataPacket::getBytestream"
    /\ gen.kind = "data"
    /\ DataPacket_verify(packet, 0) = E57_SUCCESS
    /\ Len(gen.lens) = 2
    /\ out.n = 0
    /\ out.result = E57_SUCCESS
    /\ out.byteCount > 0
    /\ gen.lens[2] > 0
    /\ gen.length > DataNeeded(gen)

\* C27: a lock call made while a lock is outstanding, or with offset 0, is
\* rejected and changes nothing: the slots, useCount_, lockCount_, the guards
\* and the caller's pointer stay as they were, and the file sees no seek and
\* no read.
C27_RejectedLockChangesNothing ==
    [][(call'.op = "lock" /\ (lockCount_ > 0 \/ call'.off = 0)) =>
          /\ call'.result = E57_ERROR_INTERNAL
          /\ entries_' = entries_
          /\ useCount_' = useCount_
          /\ lockCount_' = lockCount_
          /\ locks' = locks
          /\ pkt' = pkt
          /\ call'.seeks = 0
          /\ call'.reads = 0]_vars

\* lock of a packet that is not cached, refused while a full cache is locked
C27_Witness ==
    /\ call.op = "lock"
    /\ call.result = E57_ERROR_INTERNAL
    /\ call.off \in DOMAIN File
    /\ \A i \in Slots : entries_[i].logicalOffset_ # call.off
    /\ lockCount_ = 1
    /\ pkt # NullPkt
    /\ AllFilled
    /\ packetCount = 2

\* the last call was a lock that failed inside readPacket
FailedInReadPacket(c) == c.op = "lock" /\ c.reads >= 1 /\ c.result # E57_SUCCESS

\* C28: a lock call that fails inside readPacket creates no guard and leaves
\* lockCount_ at 0 and useCount_ unchanged, and the lock call that follows it
\* is not rejected for an outstanding lock.
C28_FailedLoadLeavesCacheUnlocked ==
    /\ [](FailedInReadPacket(call) => (lockCount_ = 0 /\ locks = <<>>))
    /\ [][FailedInReadPacket(call') =>
             (locks' = locks /\ lockCount_' = lockCount_ /\ useCount_' = useCount_)]_vars
    /\ [][(FailedInReadPacket(call) /\ call'.op = "lock" /\ call'.off # 0) =>
             (call'.hit \/ call'.reads >= 1)]_vars

\* a read past the end of the file, on a cache that has served locks before
C28_Witness ==
    /\ FailedInReadPacket(call)
    /\ call.result = E57_ERROR_READ_FAILED
    /\ useCount_ >= 2
    /\ AllFilled

\* C29: an index packet accepted by IndexPacket::verify declares a length of
\* at least 16 + 16*entryCount, so its entries 0 .. entryCount-1 lie within
\* the declared length.
C29_AcceptedIndexHoldsItsEntries ==
    (out.op = "IndexPacket::verify" /\ out.result = E57_SUCCESS) =>
       /\ gen.length >= SizeofIndexPacketHeader + 16 * gen.count
       /\ \A i \in 0 .. (Written(gen) - 1) : 24 + 16 * i + 8 <= gen.length

\* a full packet: 2048 entries in exactly 16 + 16*2048 bytes
C29_Witness ==
    /\ out.op = "IndexPacket::verify"
    /\ out.result = E57_SUCCESS
    /\ gen.count = MAX_ENTRIES
    /\ gen.length = SizeofIndexPacketHeader + 16 * gen.count
    /\ gen.order = "sorted"

====
